---- MODULE Spec2Model ----
(***************************************************************************)
(* A model of pycramfs, a read-only decoder of Cramfs images.              *)
(*                                                                         *)
(* The module holds one state machine per component of the library, each   *)
(* with its own specification:                                             *)
(*   SpecStream  BoundedSubStream over an underlying stream (util.py)      *)
(*   SpecSuper   Cramfs.from_fd / test_super (__init__.py, util.py)        *)
(*   SpecData    DataFile.iter_bytes / read_bytes (file.py)                *)
(*   SpecScan    find_superblocks (util.py)                                *)
(*   SpecTree    Directory.from_fd, File.path, Directory.select (file.py)  *)
(* The variables of the components a specification does not run stay at    *)
(* their idle values.                                                      *)
(***************************************************************************)
EXTENDS Integers, Sequences, FiniteSets, TLC

VARIABLES
    fd_kind,    \* the underlying stream: "BytesIO" (from_bytes) or "file"
    fd_len,     \* number of bytes the underlying stream holds
    fd_pos,     \* position of the underlying stream (self._fd.tell())
    bs_start,   \* BoundedSubStream._start
    bs_end,     \* BoundedSubStream._end
    last,       \* the last call made on the bounded stream, and what it gave
    super,      \* the superblock record Super.from_fd decoded
    py_invert,  \* how the interpreter's enum evaluates ~SUPPORTED_FLAGS
    pc,         \* position of Cramfs.from_fd
    outcome,    \* what Cramfs.from_fd ended with
    data_inode, \* inode of the data-bearing node that is read
    data_words, \* the block pointers the image holds at the inode's offset
    data_zs,    \* the zlib streams the image holds
    it,         \* the generator iter_bytes() returned
    scan_src,   \* the bytes of the source find_superblocks scans
    scan_size,  \* its chunk size argument
    scan,       \* the locals of find_superblocks and its position
    tree_ent,   \* the directory entries the image holds, by image offset
    tree_root,  \* super.root, the inode of the root directory
    nodes,      \* the File objects created so far, by identity
    stack,      \* the active calls of Directory.from_fd, innermost last
    tree_pc,    \* position of the tree build
    sel,        \* the last select() made on the image, and its result
    crc_src,    \* the bytes of the underlying stream calculate_crc reads
    crc_size,   \* its chunk size argument
    crc,        \* the locals of calculate_crc and its position
    life,       \* how the image is made, its stream and the calls made on it
    totals,     \* the _total each Directory object caches, by identity
    tot,        \* the last access of a total, and its result
    match,      \* the last itermatch() consumed, and the nodes it yielded
    other       \* a second data-bearing node, its iterator, and the calls made between pulls

streamVars == <<fd_kind, fd_len, fd_pos, bs_start, bs_end, last>>
superVars == <<super, py_invert, pc, outcome>>
dataVars == <<data_inode, data_words, data_zs, it>>
scanVars == <<scan_src, scan_size, scan>>
treeVars == <<tree_ent, tree_root, nodes, stack, tree_pc, sel>>
crcVars == <<crc_src, crc_size, crc>>
lifeVars == <<life>>
totalVars == <<totals, tot>>
matchVars == <<match>>
shareVars == <<other>>
vars == <<streamVars, superVars, dataVars, scanVars, treeVars, crcVars, lifeVars, totalVars, matchVars, shareVars>>
\* What the actions of one component leave alone in the other components.
offStream == <<superVars, dataVars, scanVars, treeVars, crcVars, lifeVars, totalVars, matchVars, shareVars>>
offSuper == <<dataVars, scanVars, treeVars, crcVars, lifeVars, totalVars, matchVars, shareVars>>
offData == <<superVars, scanVars, treeVars, crcVars, lifeVars, totalVars, matchVars, shareVars>>
offScan == <<streamVars, superVars, dataVars, treeVars, crcVars, lifeVars, totalVars, matchVars, shareVars>>
offTree == <<superVars, dataVars, scanVars, crcVars, lifeVars, totalVars, matchVars, shareVars>>
offCrc == <<superVars, dataVars, scanVars, treeVars, lifeVars, totalVars, matchVars, shareVars>>
offLife == <<superVars, dataVars, scanVars, treeVars, crcVars, totalVars, matchVars, shareVars>>
offTotal == <<superVars, dataVars, scanVars, treeVars, crcVars, lifeVars, matchVars, shareVars>>
offMatch == <<superVars, dataVars, scanVars, treeVars, crcVars, lifeVars, totalVars, shareVars>>
offShare == <<superVars, dataVars, scanVars, treeVars, crcVars, lifeVars, totalVars, matchVars>>

(***************************************************************************)
(* Helpers                                                                 *)
(***************************************************************************)
RECURSIVE SumSeq(_)
SumSeq(q) == IF q = <<>> THEN 0 ELSE Head(q) + SumSeq(Tail(q))

Min(a, b) == IF a < b THEN a ELSE b
Max(a, b) == IF a > b THEN a ELSE b

RECURSIVE BitAnd(_, _)
\* a & b on naturals
BitAnd(a, b) ==
    IF a = 0 \/ b = 0 THEN 0
    ELSE (a % 2) * (b % 2) + 2 * BitAnd(a \div 2, b \div 2)

(***************************************************************************)
(* Bounds of the model                                                     *)
(***************************************************************************)
MaxLen == 4     \* length of the underlying stream in SpecStream
MaxOff == 6     \* seek offsets and read sizes range over -MaxOff..MaxOff
MaxBlocks == 2  \* a data-bearing node has at most MaxBlocks blocks
CompLen == 12   \* length of a zlib stream of the model, in bytes
MaxSegs == 3    \* a scanned source is made of at most MaxSegs segments
MaxOps == 2                         \* calls made between the pulls of the iterators
MaxDepth == 4   \* nested calls of Directory.from_fd before RecursionError
CrcTail == 2    \* an image of SpecCrc has at most CrcTail bytes after the superblock

(***************************************************************************)
(* The underlying stream (io.BytesIO or a file opened "rb")                *)
(***************************************************************************)
\* fd.read(size) at position p: the number of bytes returned. A negative size
\* reads to the end of the stream; a position past the end gives no byte.
UnderRead(p, size, len) ==
    LET avail == Max(0, len - p)
    IN  IF size < 0 THEN avail ELSE Min(size, avail)

\* fd.seek(offset, whence) at position p, whence SEEK_SET or SEEK_CUR:
\* the new position, or a raise. Both streams refuse a negative absolute
\* target; BytesIO pins a negative relative target to 0, a file raises
\* OSError(EINVAL). Seeking past the end is allowed.
UnderSeek(kind, p, offset, whence) ==
    IF whence = "SET"
    THEN IF offset < 0 THEN [raised |-> TRUE, pos |-> p]
         ELSE [raised |-> FALSE, pos |-> offset]
    ELSE IF p + offset >= 0 THEN [raised |-> FALSE, pos |-> p + offset]
         ELSE IF kind = "BytesIO" THEN [raised |-> FALSE, pos |-> 0]
         ELSE [raised |-> TRUE, pos |-> p]

(***************************************************************************)
(* BoundedSubStream (util.py)                                              *)
(***************************************************************************)
\* The size read() hands to the underlying stream. `none` is size is None.
BoundedReadSize(p, none, size, e) ==
    LET max_read == e - p
    IN  IF none \/ size < 0 \/ size > max_read THEN max_read ELSE size

\* BoundedSubStream.read(size): the number of bytes returned.
BoundedRead(p, none, size, e, len) ==
    UnderRead(p, BoundedReadSize(p, none, size, e), len)

\* The (offset, whence) pair seek() hands to the underlying stream.
BoundedSeekArgs(p, offset, whence, s, e) ==
    IF whence = "SET"
    THEN [offset |-> Max(s, offset + s), whence |-> "SET"]
    ELSE IF whence = "CUR"
    THEN IF p + offset > e THEN [offset |-> e - p, whence |-> "CUR"]
         ELSE IF p + offset < s THEN [offset |-> p - s, whence |-> "CUR"]
         ELSE [offset |-> offset, whence |-> "CUR"]
    ELSE [offset |-> Min(e, offset + e), whence |-> "SET"]

\* BoundedSubStream.seek(offset, whence): new underlying position, or a raise.
BoundedSeek(kind, p, offset, whence, s, e) ==
    LET a == BoundedSeekArgs(p, offset, whence, s, e)
    IN  UnderSeek(kind, p, a.offset, a.whence)

\* BoundedSubStream.tell()
BoundedTell(p, s) == p - s

(***************************************************************************)
(* Superblock validation (structure.py, const.py, util.py, __init__.py)    *)
(***************************************************************************)
MAGIC == 684539205                  \* 0x28CD3D45
\* b"Compressed ROMFS"
SIGNATURE_BYTES ==
    <<67, 111, 109, 112, 114, 101, 115, 115, 101, 100, 32, 82, 79, 77, 70, 83>>
PAGE_SIZE == 4096
FSID_VERSION_2 == 1
SUPPORTED_FLAGS == 4095             \* 0xFF | 0x100 | 0x200 | 0x400 | 0x800
SizeofSuper == 76                   \* ctypes.sizeof(Super): 16 + 16 + 16 + 16 + 12

\* The value of a ctypes c_char array field: the bytes before the first NUL.
RECURSIVE CCharValue(_)
CCharValue(raw) ==
    IF raw = <<>> \/ Head(raw) = 0 THEN <<>>
    ELSE <<Head(raw)>> \o CCharValue(Tail(raw))

IsCont(b) == b >= 128 /\ b <= 191

\* bytes.decode() (UTF-8, strict): the code points, or <<-1>> when it raises
\* UnicodeDecodeError.
RECURSIVE Utf8Decode(_)
Utf8Decode(b) ==
    IF b = <<>> THEN <<>>
    ELSE LET h == Head(b)
             n == IF h < 128 THEN 1
                  ELSE IF h >= 194 /\ h <= 223 THEN 2
                  ELSE IF h >= 224 /\ h <= 239 THEN 3
                  ELSE IF h >= 240 /\ h <= 244 THEN 4
                  ELSE 0
             wellformed ==
                 /\ n > 0
                 /\ Len(b) >= n
                 /\ \A i \in 2..n : IsCont(b[i])
                 /\ (h = 224 => b[2] >= 160)
                 /\ (h = 237 => b[2] <= 159)
                 /\ (h = 240 => b[2] >= 144)
                 /\ (h = 244 => b[2] <= 143)
             cp == IF n = 1 THEN h
                   ELSE IF n = 2 THEN (h - 192) * 64 + (b[2] - 128)
                   ELSE IF n = 3
                   THEN (h - 224) * 4096 + (b[2] - 128) * 64 + (b[3] - 128)
                   ELSE (h - 240) * 262144 + (b[2] - 128) * 4096
                        + (b[3] - 128) * 64 + (b[4] - 128)
             rest == IF wellformed THEN Utf8Decode(SubSeq(b, n + 1, Len(b)))
                     ELSE <<-1>>
         IN  IF rest = <<-1>> THEN <<-1>> ELSE <<cp>> \o rest

\* Super.signature: self._signature.decode()
SuperSignature(sb) == Utf8Decode(CCharValue(sb.signature))

\* ~SUPPORTED_FLAGS. SUPPORTED_FLAGS is a member of the IntFlag class Flag
\* (0xFF | Flag.HOLES goes through Flag.__ror__), so ~ is Flag.__invert__:
\* up to Python 3.10 it is the complement, from 3.11 on the enum reduces the
\* negative value modulo the class's bit range (12 bits) and gives Flag(0).
\* The operator is flags & ~SUPPORTED_FLAGS.
AndInvertedSupported(flags, inv) ==
    IF inv = "complement" THEN flags - BitAnd(flags, SUPPORTED_FLAGS)
    ELSE BitAnd(flags, 0)

\* test_super: "ok", "warning" (old format, not an error), the message of
\* the CramfsError raised, or "UnicodeDecodeError".
test_super(sb, inv) ==
    IF sb.magic # MAGIC THEN "wrong magic"
    ELSE IF SuperSignature(sb) = <<-1>> THEN "UnicodeDecodeError"
    ELSE IF SuperSignature(sb) # SIGNATURE_BYTES THEN "wrong signature"
    ELSE IF AndInvertedSupported(sb.flags, inv) # 0
    THEN "unsupported filesystem features"
    ELSE IF sb.size < PAGE_SIZE THEN "superblock size too small"
    ELSE IF BitAnd(sb.flags, FSID_VERSION_2) # 0
    THEN IF sb.files = 0 THEN "zero file count" ELSE "ok"
    ELSE "warning"

CramfsErrors ==
    {"wrong magic", "wrong signature", "unsupported filesystem features",
     "superblock size too small", "zero file count"}

ErrorKind(msg) ==
    IF msg \in CramfsErrors THEN "CramfsError"
    ELSE IF msg = "UnicodeDecodeError" THEN "UnicodeDecodeError"
    ELSE "none"

\* Raw signature fields the superblocks of the model carry.
SigLower == [SIGNATURE_BYTES EXCEPT ![16] = 115]
SigShort == [SIGNATURE_BYTES EXCEPT ![16] = 0]
SigHigh == [SIGNATURE_BYTES EXCEPT ![16] = 255]
SigAccent == [SIGNATURE_BYTES EXCEPT ![15] = 195, ![16] = 169]
SigHidden == [i \in 1..16 |-> IF i < 5 THEN SIGNATURE_BYTES[i]
                              ELSE IF i = 5 THEN 0 ELSE 255]
Signatures ==
    {SIGNATURE_BYTES, SigLower, SigShort, SigHigh, SigAccent, SigHidden}
Magics == {MAGIC, MAGIC + 1, 0}
FlagValues == {0, 1, 2, 3, 4095, 4096, 4097, 1073741825}
SuperSizes == {0, PAGE_SIZE - 1, PAGE_SIZE, PAGE_SIZE + 1}
FileCounts == {0, 1}
ImageOffsets == {0, 4}

(***************************************************************************)
(* Data reader: DataFile.iter_bytes / read_bytes (file.py)                 *)
(*                                                                         *)
(* A block pointer is a u32 held as its three parts: u is bit 31           *)
(* (UNCOMPRESSED), d is bit 30 (DIRECT_PTR), off the low 30 bits.  The     *)
(* payloads are held by the zlib streams they carry: a record [at, clen,   *)
(* dlen] says that the clen bytes at image offset at are a complete zlib   *)
(* stream of dlen decompressed bytes; every other byte range is no stream. *)
(***************************************************************************)
SizeofBlkPtr == 4                   \* struct.calcsize(BLK_PTR_FMT)

MaxBlock(size) == (size + PAGE_SIZE - 1) \div PAGE_SIZE

\* zlib.decompress(data), data the n bytes at image offset at: the length of
\* the result, or -1 when zlib.error is raised. Bytes after the end of the
\* stream are ignored, a cut stream and an empty buffer are errors.
Decompress(zs, at, n) ==
    IF \E z \in zs : z.at = at /\ z.clen <= n
    THEN (CHOOSE z \in zs : z.at = at /\ z.clen <= n).dlen
    ELSE -1

\* The first pull of the generator, up to the loop: seek to the inode's
\* offset, read the pointer array, hand it to struct.iter_unpack, which
\* raises struct.error on a buffer that is no multiple of 4 bytes long.
IterSetup(kind, p, ino, words, s, e, len) ==
    LET sk == BoundedSeek(kind, p, ino.offset, "SET", s, e)
        n == BoundedRead(sk.pos, FALSE, SizeofBlkPtr * MaxBlock(ino.size), e, len)
    IN  [pos |-> sk.pos + n,
         err |-> IF n % SizeofBlkPtr # 0 THEN "struct.error" ELSE "none",
         ptrs |-> IF n % SizeofBlkPtr # 0 THEN <<>>
                  ELSE SubSeq(words, 1, Min(n \div SizeofBlkPtr, Len(words)))]

\* One turn of the loop body on pointer ptr with the stream at p: the error
\* raised or "none", the new stream position and the length of the chunk.
\* IterBlockAbsolute is the body with block_len taken from the position of
\* the underlying stream, IterBlockData the body from `block_ptr &= ~BLK_FLAGS`
\* on, IterBlockDirectIgnored the body without the DIRECT_PTR test.
IterBlockAbsolute(ptr, zs, p, s, e, len) ==
    LET block_len == ptr.off - p
        n == BoundedRead(p, FALSE, block_len, e, len)
        out == IF ptr.u THEN n ELSE Decompress(zs, BoundedTell(p, s), n)
    IN  IF out < 0 THEN [err |-> "zlib.error", pos |-> p + n, chunk |-> 0]
        ELSE [err |-> "none", pos |-> p + n, chunk |-> out]

IterBlockData(ptr, zs, p, s, e, len) ==
    LET block_len == ptr.off - BoundedTell(p, s)
        n == BoundedRead(p, FALSE, block_len, e, len)
        out == IF ptr.u THEN n ELSE Decompress(zs, BoundedTell(p, s), n)
    IN  IF out < 0 THEN [err |-> "zlib.error", pos |-> p + n, chunk |-> 0]
        ELSE [err |-> "none", pos |-> p + n, chunk |-> out]

IterBlockDirectIgnored(ptr, zs, p, s, e, len) ==
    IterBlockData(ptr, zs, p, s, e, len)

IterBlock(ptr, zs, p, s, e, len) ==
    IF ptr.d THEN [err |-> "CramfsError", pos |-> p, chunk |-> 0]
    ELSE IterBlockData(ptr, zs, p, s, e, len)

\* next() on a generator itr of iter_bytes() for the node of inode ino, with
\* the stream at p: the generator afterwards and the new stream position.
Pull(itr, ino, words, zs, kind, p, s, e, len) ==
    LET st == IF itr.state = "new"
              THEN IterSetup(kind, p, ino, words, s, e, len)
              ELSE [pos |-> p, err |-> "none", ptrs |-> itr.ptrs]
        i == Len(itr.chunks) + 1
        b == IterBlock(st.ptrs[i], zs, st.pos, s, e, len)
    IN  IF st.err # "none"
        THEN [it |-> [itr EXCEPT !.state = "raised", !.err = st.err,
                                 !.ptrs = st.ptrs],
              pos |-> st.pos]
        ELSE IF i > Len(st.ptrs)
        THEN [it |-> [itr EXCEPT !.state = "done", !.ptrs = st.ptrs],
              pos |-> st.pos]
        ELSE IF b.err # "none"
        THEN [it |-> [itr EXCEPT !.state = "raised", !.err = b.err,
                                 !.ptrs = st.ptrs],
              pos |-> b.pos]
        ELSE [it |-> [itr EXCEPT !.state = "running", !.ptrs = st.ptrs,
                                 !.chunks = Append(@, b.chunk)],
              pos |-> b.pos]

(***************************************************************************)
(* Superblock scanner: find_superblocks (util.py)                          *)
(***************************************************************************)
MAGIC_BYTES == <<69, 61, 205, 40>>  \* MAGIC.to_bytes(4, "little")
SignatureOffset == 16               \* offset of Super._signature in the record

\* block.find(sub): the least 0-based index at which sub occurs, or -1.
Find(block, sub) ==
    LET hits == {i \in 0..(Len(block) - Len(sub)) :
                    SubSeq(block, i + 1, i + Len(sub)) = sub}
    IN  IF hits = {} THEN 0 - 1
        ELSE CHOOSE i \in hits : \A j \in hits : i <= j

\* f.read(size) at position p of the source: the bytes returned.
ReadChunk(src, p, size) == SubSeq(src, p + 1, Min(p + size, Len(src)))

\* next_block[-(len(MAGIC_BYTES) - 1):]
Carry(next_block) ==
    SubSeq(next_block, Max(1, Len(next_block) - (Len(MAGIC_BYTES) - 2)),
           Len(next_block))

\* f.seek(index); super = Super.from_fd(f); the test of line 94:
\* "short" when from_buffer_copy raises ValueError on fewer than
\* sizeof(Super) bytes, else whether the record is accepted. The magic is
\* compared as a little-endian u32, the signature as the raw bytes (a
\* c_char array of 16 bytes none of which is NUL reads as itself).
VerifyAt(src, index) ==
    LET rec == ReadChunk(src, index, SizeofSuper)
    IN  IF Len(rec) < SizeofSuper THEN "short"
        ELSE IF /\ SubSeq(rec, 1, 4) = MAGIC_BYTES
                /\ CCharValue(SubSeq(rec, SignatureOffset + 1, SignatureOffset + 16))
                       = SIGNATURE_BYTES
             THEN "accept"
             ELSE "reject"

(***************************************************************************)
(* Directory tree: Directory.from_fd, File.path, Directory.select          *)
(* (file.py)                                                               *)
(*                                                                         *)
(* A directory entry of the image is the record of its inode fields (kind  *)
(* is the first character of the filemode, namelen and offset are in       *)
(* bytes) and of the name that follows the inode, NUL padding stripped.    *)
(* A File object is a record of `nodes`; its identity is its index.        *)
(* A path is the tuple of the parts of a PurePosixPath, with its root.     *)
(***************************************************************************)
SizeofInode == 12                   \* ctypes.sizeof(Inode)
FileTypes == {"-", "d", "l", "p", "s", "b", "c"}    \* keys of filetype
ZeroEntry == [kind |-> "?", size |-> 0, namelen |-> 0, offset |-> 0, name |-> ""]

\* The entry whose inode starts at image offset off; zero bytes elsewhere.
EntryAt(ent, off) == IF off \in DOMAIN ent THEN ent[off] ELSE ZeroEntry

RECURSIVE ParseChildren(_, _, _, _, _, _)
\* The loop `while fd.tell() != end` of from_fd with the stream at p: the
\* (inode, name) pairs read, the stream position it ends at, and
\* "ValueError" when Inode.from_fd gets fewer than 12 bytes.
ParseChildren(ent, p, end, s, e, len) ==
    IF BoundedTell(p, s) = end
    THEN [err |-> "none", children |-> <<>>, pos |-> p]
    ELSE LET n == BoundedRead(p, FALSE, SizeofInode, e, len)
             ino == EntryAt(ent, BoundedTell(p, s))
             m == BoundedRead(p + n, FALSE, ino.namelen, e, len)
             rest == ParseChildren(ent, p + n + m, end, s, e, len)
         IN  IF n < SizeofInode
             THEN [err |-> "ValueError", children |-> <<>>, pos |-> p + n]
             ELSE [err |-> rest.err, children |-> <<ino>> \o rest.children,
                   pos |-> rest.pos]

\* from_fd after the Directory object is made: nothing is read for an inode
\* with offset 0, else the stream is moved to the offset and the headers
\* up to offset + size are parsed.
DirOpen(kind, ent, p, ino, s, e, len) ==
    IF ino.offset = 0 THEN [err |-> "none", children |-> <<>>, pos |-> p]
    ELSE ParseChildren(ent, BoundedSeek(kind, p, ino.offset, "SET", s, e).pos,
                       ino.size + ino.offset, s, e, len)

\* Directory._files, a dict in insertion order, as the sequence of its
\* <<key, value>> pairs.
DictHas(files, key) == \E i \in 1..Len(files) : files[i][1] = key
\* self._files.get(key, None), 0 for None
DictGet(files, key) ==
    IF DictHas(files, key)
    THEN files[CHOOSE i \in 1..Len(files) : files[i][1] = key][2]
    ELSE 0
\* self._files[key] = value
DictSet(files, key, value) ==
    IF DictHas(files, key)
    THEN [i \in 1..Len(files) |->
             IF files[i][1] = key THEN <<key, value>> ELSE files[i]]
    ELSE Append(files, <<key, value>>)

\* The parts PurePosixPath gives a relative path made of one name of the
\* model: empty and "." parts are dropped, ".." is kept, "/" separates.
NameParts(name) ==
    CASE name = "" -> <<>>
      [] name = "." -> <<>>
      [] name = "a/b" -> <<"a", "b">>
      [] OTHER -> <<name>>

RootPath == [abs |-> TRUE, parts |-> <<>>]

RECURSIVE PathOf(_, _)
\* File.path
PathOf(ns, n) ==
    IF ns[n].parent = 0 THEN RootPath
    ELSE [abs |-> TRUE,
          parts |-> PathOf(ns, ns[n].parent).parts \o NameParts(ns[n].name)]

RECURSIVE Select(_, _, _, _)
\* Directory.select(path) on directory self of the image whose root
\* directory is root; 0 for None.
Select(ns, root, self, path) ==
    IF ~path.abs /\ path.parts = <<"..">>
    THEN IF ns[self].parent # 0 THEN ns[self].parent ELSE self
    ELSE IF path.abs /\ PathOf(ns, self) # RootPath
    THEN Select(ns, root, root, path)
    ELSE IF path.parts = <<>> THEN self
    ELSE LET child == Head(path.parts)
             descendants == Tail(path.parts)
             file == DictGet(ns[self].files, child)
         IN  IF file = 0 THEN 0
             ELSE IF ns[file].kind = "d" /\ descendants # <<>>
             THEN Select(ns, root, file, [abs |-> FALSE, parts |-> descendants])
             ELSE IF descendants = <<>> THEN file
             ELSE 0

RECURSIVE Riter(_, _)
\* Directory.riter(): the nodes in pre-order
Riter(ns, n) ==
    LET RECURSIVE Over(_)
        Over(fs) ==
            IF fs = <<>> THEN <<>>
            ELSE (IF ns[Head(fs)[2]].kind = "d" THEN Riter(ns, Head(fs)[2])
                  ELSE <<Head(fs)[2]>>) \o Over(Tail(fs))
    IN  <<n>> \o Over(ns[n].files)

(***************************************************************************)
(* Cramfs.calculate_crc (__init__.py)                                      *)
(*                                                                         *)
(* A CRC-32 value is the set of the positions of its one bits, 0 the least *)
(* significant of the 32.                                                  *)
(***************************************************************************)
CRC_OFFSET == 32
CRC_SIZE == 4

RECURSIVE Pow2(_)
Pow2(n) == IF n = 0 THEN 1 ELSE 2 * Pow2(n - 1)
\* The one bits of byte b
BitsOf(b) == {i \in 0..7 : (b \div Pow2(i)) % 2 = 1}

\* a ^ b
CrcXor(a, b) == (a \ b) \cup (b \ a)
CrcOnes == 0..31                    \* 0xFFFFFFFF
\* 0xEDB88320, the reflected polynomial of the CRC-32 of zlib
CrcPoly == {5, 8, 9, 15, 19, 20, 21, 23, 24, 26, 27, 29, 30, 31}

\* One bit: c = (c >> 1) ^ (0xEDB88320 if c & 1 else 0)
CrcShift(c) ==
    LET sh == {i - 1 : i \in c \ {0}}
    IN  IF 0 \in c THEN CrcXor(sh, CrcPoly) ELSE sh
CrcBit(c0) == CHOOSE r \in {CrcShift(c) : c \in {c0}} : TRUE

\* One byte: c ^= b, then eight bits
CrcByte(c, b) ==
    CrcBit(CrcBit(CrcBit(CrcBit(CrcBit(CrcBit(CrcBit(CrcBit(CrcXor(c, BitsOf(b))))))))))

RECURSIVE CrcBytes(_, _, _, _)
\* The register after the bytes data[i..j], taken half by half
CrcBytes(c, data, i, j) ==
    IF i > j THEN c
    ELSE IF i = j THEN CrcByte(c, data[i])
    ELSE LET mid == (i + j) \div 2
         IN  CHOOSE r \in {CrcBytes(half, data, mid + 1, j) :
                               half \in {CrcBytes(c, data, i, mid)}} : TRUE

\* zlib.crc32(data, value): the running CRC value is the register inverted.
crc32(data, value) ==
    CrcXor(CrcBytes(CrcXor(value, CrcOnes), data, 1, Len(data)), CrcOnes)

CrcZero == {}

\* The bytes a read of n bytes at position p of a stream holding src gives.
BytesAt(src, p, n) == SubSeq(src, p + 1, p + n)

\* The bytes of the CRC field that are hashed: bytes(CRC_SIZE)
CrcFieldKept(field) == field
CrcField(field) == [i \in 1..CRC_SIZE |-> 0]

\* calculate_crc up to the loop, with the stream at p: seek(0), the CRC of
\* the bytes before the CRC field, the field read and replaced by NULs.
CrcHead(kind, src, p, s, e, len) ==
    LET sk == BoundedSeek(kind, p, 0, "SET", s, e)
        n1 == BoundedRead(sk.pos, FALSE, CRC_OFFSET, e, len)
        c1 == crc32(BytesAt(src, sk.pos, n1), CrcZero)
        n2 == BoundedRead(sk.pos + n1, FALSE, CRC_SIZE, e, len)
        field == BytesAt(src, sk.pos + n1, n2)
    IN  [pos |-> sk.pos + n1 + n2, value |-> crc32(CrcField(field), c1)]

\* The position calculate_crc leaves the stream at: the reads of the loop
\* end with the empty block, where one read of all that is left ends.
CrcEnd(kind, p, s, e, len) ==
    LET sk == BoundedSeek(kind, p, 0, "SET", s, e)
        n1 == BoundedRead(sk.pos, FALSE, CRC_OFFSET, e, len)
        n2 == BoundedRead(sk.pos + n1, FALSE, CRC_SIZE, e, len)
        h == sk.pos + n1 + n2
    IN  h + BoundedRead(h, TRUE, 0, e, len)

(***************************************************************************)
(* The life of an image and of its stream (__init__.py, util.py)           *)
(***************************************************************************)
\* close() handed to the underlying stream, as __getattr__ does for the
\* names the class does not have: whether the stream is open afterwards.
BoundedCloseDelegated(open) == FALSE
\* BoundedSubStream.close(): the class defines no close, and the lookup
\* finds typing.IO.close, whose body is `pass`, before __getattr__ would
\* hand the call to the underlying stream.
BoundedClose(open) == open
\* Cramfs.close()
CramfsClose(open) == BoundedClose(open)
\* Cramfs.__exit__
CramfsExit(closefd, open) == IF closefd THEN CramfsClose(open) ELSE open

\* The File objects Directory.from_fd makes for a root whose children are
\* no directories: the root first, then its children in header order.
RECURSIVE FlatFiles(_, _)
FlatFiles(children, n) ==
    IF n = 0 THEN <<>>
    ELSE DictSet(FlatFiles(children, n - 1), children[n].name, n + 1)
FlatNodes(root, children) ==
    <<[kind |-> "d", name |-> "", parent |-> 0,
       files |-> FlatFiles(children, Len(children)), inode |-> root]>>
    \o [i \in 1..Len(children) |->
           [kind |-> children[i].kind, name |-> children[i].name, parent |-> 1,
            files |-> <<>>, inode |-> children[i]]]

\* Cramfs.from_fd(fd, offset, closefd) with the stream at p: the exception it
\* ends with or "none", the stream position and window it leaves, and the
\* File objects made.
FromFd(kind, sb, inv, ent, root, p, len) ==
    LET n == UnderRead(p, SizeofSuper, len)
        t == test_super(sb, inv)
        s == p
        e == p + sb.size
        r == DirOpen(kind, ent, p + n, root, s, e, len)
    IN  IF n < SizeofSuper
        THEN [err |-> "ValueError", pos |-> p + n, start |-> 0, end |-> 0,
              nodes |-> <<>>]
        ELSE IF ErrorKind(t) # "none"
        THEN [err |-> ErrorKind(t), pos |-> p + n, start |-> 0, end |-> 0,
              nodes |-> <<>>]
        ELSE [err |-> r.err, pos |-> r.pos, start |-> s, end |-> e,
              nodes |-> IF r.err = "none" THEN FlatNodes(root, r.children)
                        ELSE <<[kind |-> "d", name |-> "", parent |-> 0,
                                files |-> <<>>, inode |-> root]>>]

(***************************************************************************)
(* Directory.total (file.py)                                               *)
(*                                                                         *)
(* The cache is the function from the identities of the Directory objects  *)
(* whose _total is not None to their _total.                               *)
(***************************************************************************)
\* The directories among self._files.values(), in order
DirChildren(ns, d) ==
    SelectSeq([i \in 1..Len(ns[d].files) |-> ns[d].files[i][2]],
              LAMBDA c : ns[c].kind = "d")

\* The property read without the children's totals.
TotalOwn(ns, cache, d) == [value |-> Len(ns[d].files), cache |-> cache]

RECURSIVE TotalGet(_, _, _)
RECURSIVE TotalSum(_, _, _, _)
\* D.total read with the given cache: the value returned and the cache left.
TotalGet(ns, cache, d) ==
    IF d \in DOMAIN cache THEN [value |-> cache[d], cache |-> cache]
    ELSE LET r == TotalSum(ns, cache, DirChildren(ns, d), 1)
             v == Len(ns[d].files) + r.value
         IN  [value |-> v, cache |-> (d :> v) @@ r.cache]
\* sum(child.total for child in ... if isinstance(child, Directory)), from
\* the i-th directory on
TotalSum(ns, cache, kids, i) ==
    IF i > Len(kids) THEN [value |-> 0, cache |-> cache]
    ELSE LET one == TotalGet(ns, cache, kids[i])
             rest == TotalSum(ns, one.cache, kids, i + 1)
         IN  [value |-> one.value + rest.value, cache |-> rest.cache]

(***************************************************************************)
(* Directory.itermatch (file.py)                                           *)
(***************************************************************************)
IsPrefix(a, b) == Len(a) <= Len(b) /\ SubSeq(b, 1, Len(a)) = a

\* path.relative_to(base) on absolute paths: ValueError when base is no
\* prefix of path, shown by abs = TRUE in the result.
RelativeTo(path, base) ==
    IF IsPrefix(base.parts, path.parts)
    THEN [abs |-> FALSE,
          parts |-> SubSeq(path.parts, Len(base.parts) + 1, Len(path.parts))]
    ELSE [abs |-> TRUE, parts |-> <<"ValueError">>]

\* fnmatch on str(path) for the patterns of the model: "*" matches every
\* string, "/" included; a pattern without wildcard matches itself only.
FnMatch(path, pattern) ==
    pattern = "*" \/ (~path.abs /\ path.parts = <<pattern>>)

\* The paths itermatch hands to fnmatch.filter, in the order of riter()
MatchPaths(ns, self) ==
    LET r == Riter(ns, self)
    IN  [i \in 1..Len(r) |->
            IF PathOf(ns, self) = RootPath THEN PathOf(ns, r[i])
            ELSE RelativeTo(PathOf(ns, r[i]), PathOf(ns, self))]

\* list(self.itermatch(pattern)): the nodes yielded, 0 for None, or
\* ValueError.
Itermatch(ns, root, self, pattern) ==
    LET paths == MatchPaths(ns, self)
        hits == SelectSeq(paths, LAMBDA q : FnMatch(q, pattern))
    IN  IF \E i \in 1..Len(paths) : paths[i].parts = <<"ValueError">>
        THEN [err |-> "ValueError", nodes |-> <<>>]
        ELSE [err |-> "none",
              nodes |-> [i \in 1..Len(hits) |-> Select(ns, root, self, hits[i])]]

(***************************************************************************)
(* Idle values: the state of a component a specification does not run      *)
(***************************************************************************)
NoCall ==
    [op |-> "none", none |-> FALSE, arg |-> 0, whence |-> "-",
     p0 |-> 0, ret |-> 0, raised |-> FALSE]

NoSuper == [magic |-> 0, size |-> 0, flags |-> 0, signature |-> <<>>, files |-> 0]
NoOutcome == [kind |-> "none", msg |-> "", warned |-> FALSE, tree |-> FALSE]
NoInode == [size |-> 0, offset |-> 0]
NewIter == [state |-> "new", ptrs |-> <<>>, chunks |-> <<>>, err |-> "none"]
NoEntry == ZeroEntry
NoSelect == [node |-> 0, result |-> 0]
NewScan ==
    [state |-> "scan", count |-> 0, pos |-> 0, prev_block |-> <<>>,
     indexes |-> {}, todo |-> {}, result |-> <<>>]
NewCrc == [state |-> "new", value |-> CrcZero, p0 |-> 0, chunks |-> 0]
CrcIdle == crc_src = <<>> /\ crc_size = 1 /\ crc = NewCrc
NoLife ==
    [how |-> "none", closefd |-> TRUE, state |-> "none", err |-> "none",
     open |-> FALSE, block |-> "out", closes |-> 0]
LifeIdle == life = NoLife
NoTotal == [node |-> 0, result |-> 0, cached |-> FALSE]
TotalIdle == totals = <<>> /\ tot = NoTotal
NoMatch == [node |-> 0, pattern |-> "", err |-> "none", result |-> <<>>]
MatchIdle == match = NoMatch
NoOther == [inode |-> NoInode, words |-> <<>>, it |-> NewIter, ops |-> <<>>]
ShareIdle == other = NoOther


(***************************************************************************)
(* SpecStream: calls on a BoundedSubStream                                  *)
(***************************************************************************)
\* A bounded stream over [s, e) of a stream of MaxLen bytes, 0 <= s <= e <=
\* length, left at some position of the window.
InitStream ==
    /\ fd_kind \in {"BytesIO", "file"}
    /\ fd_len = MaxLen
    /\ bs_start \in 0..fd_len
    /\ bs_end \in bs_start..fd_len
    /\ fd_pos \in bs_start..bs_end
    /\ last = NoCall
    /\ super = NoSuper /\ py_invert = "complement" /\ pc = "idle"
    /\ outcome = NoOutcome
    /\ data_inode = NoInode /\ data_words = <<>> /\ data_zs = {}
    /\ it = NewIter
    /\ scan_src = <<>> /\ scan_size = 1 /\ scan = NewScan
    /\ tree_ent = <<>> /\ tree_root = NoEntry /\ nodes = <<>> /\ stack = <<>>
    /\ tree_pc = "idle" /\ sel = NoSelect
    /\ CrcIdle
    /\ LifeIdle
    /\ TotalIdle
    /\ MatchIdle
    /\ ShareIdle

Whences == {"SET", "CUR", "END"}
Offsets == (0 - MaxOff)..MaxOff

Read(none, size) ==
    LET n == BoundedRead(fd_pos, none, size, bs_end, fd_len)
    IN  /\ fd_pos' = fd_pos + n
        /\ last' = [op |-> "read", none |-> none, arg |-> size, whence |-> "-",
                    p0 |-> fd_pos, ret |-> n, raised |-> FALSE]
        /\ UNCHANGED <<fd_kind, fd_len, bs_start, bs_end>>

Seek(offset, whence) ==
    LET r == BoundedSeek(fd_kind, fd_pos, offset, whence, bs_start, bs_end)
    IN  /\ fd_pos' = r.pos
        /\ last' = [op |-> "seek", none |-> FALSE, arg |-> offset,
                    whence |-> whence, p0 |-> fd_pos,
                    ret |-> IF r.raised THEN 0 ELSE r.pos - bs_start,
                    raised |-> r.raised]
        /\ UNCHANGED <<fd_kind, fd_len, bs_start, bs_end>>

Tell ==
    /\ last' = [op |-> "tell", none |-> FALSE, arg |-> 0, whence |-> "-",
                p0 |-> fd_pos, ret |-> BoundedTell(fd_pos, bs_start),
                raised |-> FALSE]
    /\ UNCHANGED <<fd_kind, fd_len, fd_pos, bs_start, bs_end>>

NextStream ==
    \/ \E size \in Offsets : Read(FALSE, size) /\ UNCHANGED offStream
    \/ Read(TRUE, 0) /\ UNCHANGED offStream
    \/ \E offset \in Offsets, whence \in Whences :
          Seek(offset, whence) /\ UNCHANGED offStream
    \/ Tell /\ UNCHANGED offStream

(***************************************************************************)
(* SpecSuper: Cramfs.from_fd up to the tree build                          *)
(***************************************************************************)
\* Cramfs.from_fd(fd, offset) is entered: the stream holds a complete
\* superblock record at offset.
InitSuper ==
    /\ super \in [magic : Magics, size : SuperSizes, flags : FlagValues,
                  signature : Signatures, files : FileCounts]
    /\ py_invert \in {"complement", "zero"}
    /\ pc = "start"
    /\ outcome = NoOutcome
    /\ fd_kind = "BytesIO"
    /\ fd_pos \in ImageOffsets
    /\ fd_len = fd_pos + Max(super.size, SizeofSuper)
    /\ bs_start = 0
    /\ bs_end = 0
    /\ last = NoCall
    /\ data_inode = NoInode /\ data_words = <<>> /\ data_zs = {}
    /\ it = NewIter
    /\ scan_src = <<>> /\ scan_size = 1 /\ scan = NewScan
    /\ tree_ent = <<>> /\ tree_root = NoEntry /\ nodes = <<>> /\ stack = <<>>
    /\ tree_pc = "idle" /\ sel = NoSelect
    /\ CrcIdle
    /\ LifeIdle
    /\ TotalIdle
    /\ MatchIdle
    /\ ShareIdle

\* fd.seek(offset); super = Super.from_fd(fd)
ParseSuper ==
    /\ pc = "start"
    /\ pc' = "parsed"
    /\ fd_pos' = fd_pos + UnderRead(fd_pos, SizeofSuper, fd_len)
    /\ UNCHANGED <<fd_kind, fd_len, bs_start, bs_end, last, super, py_invert, outcome, offSuper>>

\* test_super(super)
TestSuper ==
    /\ pc = "parsed"
    /\ LET r == test_super(super, py_invert)
       IN  /\ outcome' = [kind |-> IF ErrorKind(r) = "none" THEN "ok" ELSE ErrorKind(r),
                          msg |-> r, warned |-> (r = "warning"), tree |-> FALSE]
           /\ pc' = IF ErrorKind(r) = "none" THEN "validated" ELSE "raised"
    /\ UNCHANGED <<streamVars, super, py_invert, offSuper>>

\* fd_ = BoundedSubStream(fd, offset, offset + super.size); the root
\* directory is built over it.
BuildRoot ==
    /\ pc = "validated"
    /\ pc' = "built"
    /\ bs_start' = fd_pos - SizeofSuper
    /\ bs_end' = fd_pos - SizeofSuper + super.size
    /\ outcome' = [outcome EXCEPT !.tree = TRUE]
    /\ UNCHANGED <<fd_kind, fd_len, fd_pos, last, super, py_invert, offSuper>>

NextSuper == ParseSuper \/ TestSuper \/ BuildRoot

(***************************************************************************)
(* SpecData: one data-bearing node of an image is read through             *)
(* iter_bytes()                                                            *)
(***************************************************************************)
\* The length block i of a file of `size` bytes decodes to in a well-formed
\* image: a page, or what is left for the last block.
ExpectedLen(size, i) ==
    IF i < MaxBlock(size) THEN PAGE_SIZE
    ELSE size - (MaxBlock(size) - 1) * PAGE_SIZE

\* The ways a block is laid out in the images of the model.
BlockKinds ==
    {"raw_ok", "raw_long", "raw_back", "raw_empty", "raw_ok_direct",
     "z_ok", "z_more", "z_bad", "z_cut", "z_extra", "z_ok_direct"}
RawKinds == {"raw_ok", "raw_long", "raw_back", "raw_empty", "raw_ok_direct"}
DirectKinds == {"raw_ok_direct", "z_ok_direct"}
StreamKinds == {"z_ok", "z_more", "z_cut", "z_extra", "z_ok_direct"}

\* The distance from the end of the previous payload to the pointer's offset.
Delta(kind, L) ==
    CASE kind \in {"raw_ok", "raw_ok_direct"} -> L
      [] kind = "raw_long" -> L + 4
      [] kind = "raw_back" -> 0 - 4
      [] kind = "raw_empty" -> 0
      [] kind \in {"z_ok", "z_more", "z_bad", "z_ok_direct"} -> CompLen
      [] kind = "z_cut" -> CompLen - 2
      [] kind = "z_extra" -> CompLen + 3

RECURSIVE EndOf(_, _, _, _)
\* The offset pointer i carries; pointer 0 stands for the end of the array.
EndOf(ks, size, base, i) ==
    IF i = 0 THEN base
    ELSE EndOf(ks, size, base, i - 1) + Delta(ks[i], ExpectedLen(size, i))

WordsOf(ks, size, base) ==
    [i \in 1..MaxBlock(size) |->
        [u |-> ks[i] \in RawKinds, d |-> ks[i] \in DirectKinds,
         off |-> EndOf(ks, size, base, i)]]

StreamsOf(ks, size, base) ==
    {[at |-> EndOf(ks, size, base, i - 1), clen |-> CompLen,
      dlen |-> IF ks[i] = "z_more" THEN ExpectedLen(size, i) + 1
               ELSE ExpectedLen(size, i)] :
        i \in {j \in 1..MaxBlock(size) : ks[j] \in StreamKinds}}

DataImageSize == (MaxBlocks + 1) * PAGE_SIZE
DataSizes ==
    {0} \cup {(k - 1) * PAGE_SIZE + r : k \in 1..MaxBlocks, r \in {1, 808, PAGE_SIZE}}
DataOffsets == {96, DataImageSize - 4, DataImageSize + 4}

\* An image of DataImageSize bytes at offset bs_start of the underlying
\* stream, which holds it whole, with bytes after it, or cut short.
InitData ==
    /\ fd_kind = "BytesIO"
    /\ bs_start \in ImageOffsets
    /\ bs_end = bs_start + DataImageSize
    /\ data_inode \in [size : DataSizes, offset : DataOffsets]
    /\ fd_len \in {bs_end, bs_end + 8,
                   bs_start + data_inode.offset
                       + SizeofBlkPtr * MaxBlock(data_inode.size) + 2}
    /\ fd_pos \in {bs_start + SizeofSuper, bs_end}
    /\ \E ks \in [1..MaxBlock(data_inode.size) -> BlockKinds] :
          LET base == data_inode.offset + SizeofBlkPtr * MaxBlock(data_inode.size)
          IN  /\ data_words = WordsOf(ks, data_inode.size, base)
              /\ data_zs = StreamsOf(ks, data_inode.size, base)
    /\ it = NewIter
    /\ last = NoCall
    /\ scan_src = <<>> /\ scan_size = 1 /\ scan = NewScan
    /\ tree_ent = <<>> /\ tree_root = NoEntry /\ nodes = <<>> /\ stack = <<>>
    /\ tree_pc = "idle" /\ sel = NoSelect
    /\ CrcIdle
    /\ super = NoSuper /\ py_invert = "complement" /\ pc = "idle"
    /\ outcome = NoOutcome
    /\ LifeIdle
    /\ TotalIdle
    /\ MatchIdle
    /\ ShareIdle

\* next() on the generator: the code up to the next yield, return or raise.
IterPull ==
    /\ it.state \in {"new", "running"}
    /\ LET st == IF it.state = "new"
                 THEN IterSetup(fd_kind, fd_pos, data_inode, data_words,
                                bs_start, bs_end, fd_len)
                 ELSE [pos |-> fd_pos, err |-> "none", ptrs |-> it.ptrs]
           i == Len(it.chunks) + 1
           b == IterBlock(st.ptrs[i], data_zs, st.pos, bs_start, bs_end, fd_len)
       IN  IF st.err # "none"
           THEN /\ it' = [it EXCEPT !.state = "raised", !.err = st.err,
                                    !.ptrs = st.ptrs]
                /\ fd_pos' = st.pos
           ELSE IF i > Len(st.ptrs)
           THEN /\ it' = [it EXCEPT !.state = "done", !.ptrs = st.ptrs]
                /\ fd_pos' = st.pos
           ELSE IF b.err # "none"
           THEN /\ it' = [it EXCEPT !.state = "raised", !.err = b.err,
                                    !.ptrs = st.ptrs]
                /\ fd_pos' = b.pos
           ELSE /\ it' = [it EXCEPT !.state = "running", !.ptrs = st.ptrs,
                                    !.chunks = Append(@, b.chunk)]
                /\ fd_pos' = b.pos
    /\ UNCHANGED <<fd_kind, fd_len, bs_start, bs_end, last,
                   data_inode, data_words, data_zs, offData>>

NextData == IterPull

(***************************************************************************)
(* SpecScan: find_superblocks(source, size)                                *)
(***************************************************************************)
Zeros(n) == [i \in 1..n |-> 0]
ValidRecord == MAGIC_BYTES \o Zeros(12) \o SIGNATURE_BYTES \o Zeros(SizeofSuper - 32)
BadSigRecord == MAGIC_BYTES \o Zeros(12) \o SigLower \o Zeros(SizeofSuper - 32)

\* The segments the sources of the model are made of.
Segment(kind) ==
    CASE kind = "valid" -> ValidRecord
      [] kind = "badsig" -> BadSigRecord
      [] kind = "magic" -> MAGIC_BYTES
      [] kind = "half" -> SubSeq(MAGIC_BYTES, 1, 2)
      [] kind = "pad1" -> Zeros(1)
      [] kind = "pad3" -> Zeros(3)
SegmentKinds == {"valid", "badsig", "magic", "half", "pad1", "pad3"}

RECURSIVE Concat(_)
Concat(ks) == IF ks = <<>> THEN <<>> ELSE Segment(Head(ks)) \o Concat(Tail(ks))

ChunkSizes == {1, 2, 3, 4, 5, 7, SizeofSuper, SizeofSuper + 4, 1024}

InitScan ==
    /\ \E n \in 1..MaxSegs : \E ks \in [1..n -> SegmentKinds] :
          scan_src = Concat(ks)
    /\ scan_size \in ChunkSizes
    /\ scan = NewScan
    /\ fd_kind = "BytesIO" /\ fd_len = 0 /\ fd_pos = 0
    /\ bs_start = 0 /\ bs_end = 0
    /\ last = NoCall
    /\ super = NoSuper /\ py_invert = "complement" /\ pc = "idle"
    /\ outcome = NoOutcome
    /\ data_inode = NoInode /\ data_words = <<>> /\ data_zs = {}
    /\ it = NewIter
    /\ tree_ent = <<>> /\ tree_root = NoEntry /\ nodes = <<>> /\ stack = <<>>
    /\ tree_pc = "idle" /\ sel = NoSelect
    /\ CrcIdle
    /\ LifeIdle
    /\ TotalIdle
    /\ MatchIdle
    /\ ShareIdle

\* One turn of the loop over the chunks; the empty chunk ends it.
ScanChunk ==
    /\ scan.state = "scan"
    /\ LET next_block == ReadChunk(scan_src, scan.pos, scan_size)
           block == scan.prev_block \o next_block
           index == Find(block, MAGIC_BYTES)
       IN  IF next_block = <<>>
           THEN scan' = [scan EXCEPT !.state = "verify", !.todo = scan.indexes]
           ELSE scan' = [scan EXCEPT
                    !.pos = @ + Len(next_block),
                    !.count = @ + 1,
                    !.indexes =
                        IF index # 0 - 1
                        THEN @ \cup {index + scan.count * scan_size
                                         - Len(scan.prev_block)}
                        ELSE @,
                    !.prev_block = Carry(next_block)]
    /\ UNCHANGED <<scan_src, scan_size, offScan>>

\* One turn of the loop over sorted(indexes); the function returns after
\* the last one.
ScanVerify ==
    /\ scan.state = "verify"
    /\ IF scan.todo = {}
       THEN scan' = [scan EXCEPT !.state = "done"]
       ELSE LET index == CHOOSE i \in scan.todo : \A j \in scan.todo : i <= j
                v == VerifyAt(scan_src, index)
            IN  IF v = "short"
                THEN scan' = [scan EXCEPT !.state = "raised"]
                ELSE scan' = [scan EXCEPT
                         !.todo = @ \ {index},
                         !.pos = index + SizeofSuper,
                         !.result = IF v = "accept" THEN Append(@, index) ELSE @]
    /\ UNCHANGED <<scan_src, scan_size, offScan>>

NextScan == ScanChunk \/ ScanVerify

(***************************************************************************)
(* SpecTree: the tree of an image is built, then nodes are selected by     *)
(* their paths                                                             *)
(***************************************************************************)
Names == {"", ".", "..", "a", "a/b"}
\* Bytes a name takes in the image, padded with NULs to a multiple of 4.
PaddedLen(name) == IF name = "" THEN 0 ELSE 4
EntryLen(entry) == SizeofInode + entry.namelen
FileEntry(kind, name) ==
    [kind |-> kind, size |-> 0, namelen |-> PaddedLen(name), offset |-> 0,
     name |-> name]
DirEntry(name, offset, size) ==
    [kind |-> "d", size |-> size, namelen |-> PaddedLen(name),
     offset |-> offset, name |-> name]

\* Image offsets of the directory headers of the model: the root's right
\* after the superblock, the others one after the other, each with room
\* for two entries.
RootHeader == SizeofSuper
RegionLen == 2 * (SizeofInode + 4)
Header1 == RootHeader + RegionLen
Header2 == Header1 + RegionLen

\* The image: the root holds directory n1 (header at Header1) and file n2;
\* directory n1 holds n3, which is a directory with header at Header2, an
\* empty directory, a file, or a directory whose offset is Header1 again
\* ("loop"), and symlink n4; Header2 holds file n5.
TreeImage(n1, n2, n3, k3, n4, n5) ==
    LET e5 == FileEntry("-", n5)
        e4 == FileEntry("l", n4)
        len1 == 2 * SizeofInode + PaddedLen(n3) + PaddedLen(n4)
        e3 == IF k3 = "dir" THEN DirEntry(n3, Header2, EntryLen(e5))
              ELSE IF k3 = "empty" THEN DirEntry(n3, 0, 0)
              ELSE IF k3 = "loop" THEN DirEntry(n3, Header1, len1)
              ELSE FileEntry("c", n3)
        e2 == FileEntry("-", n2)
        e1 == DirEntry(n1, Header1, len1)
    IN  [root |-> DirEntry("", RootHeader, EntryLen(e1) + EntryLen(e2)),
         ent |-> (RootHeader :> e1) @@ (RootHeader + EntryLen(e1) :> e2)
                 @@ (Header1 :> e3) @@ (Header1 + EntryLen(e3) :> e4)
                 @@ (IF k3 = "dir" THEN Header2 :> e5 ELSE <<>>)]

InitTree ==
    /\ \E n1, n2, n3, n4, n5 \in Names, k3 \in {"dir", "empty", "file", "loop"} :
          LET img == TreeImage(n1, n2, n3, k3, n4, n5)
          IN  tree_ent = img.ent /\ tree_root = img.root
    /\ nodes = <<>> /\ stack = <<>> /\ tree_pc = "init" /\ sel = NoSelect
    /\ CrcIdle
    /\ fd_kind = "BytesIO"
    /\ bs_start \in ImageOffsets
    /\ bs_end = bs_start + PAGE_SIZE
    /\ fd_len = bs_end
    /\ fd_pos = bs_start + SizeofSuper
    /\ last = NoCall
    /\ super = NoSuper /\ py_invert = "complement" /\ pc = "idle"
    /\ outcome = NoOutcome
    /\ data_inode = NoInode /\ data_words = <<>> /\ data_zs = {}
    /\ it = NewIter
    /\ scan_src = <<>> /\ scan_size = 1 /\ scan = NewScan
    /\ LifeIdle
    /\ TotalIdle
    /\ MatchIdle
    /\ ShareIdle

\* Directory.from_fd(fd, image, ino, name) is entered: the Directory object
\* is made and its child headers are parsed. More than MaxDepth nested
\* calls end in RecursionError.
TreeCall(ino, name) ==
    LET r == DirOpen(fd_kind, tree_ent, fd_pos, ino, bs_start, bs_end, fd_len)
    IN  IF Len(stack) >= MaxDepth
        THEN /\ tree_pc' = "RecursionError"
             /\ UNCHANGED <<nodes, stack, fd_pos>>
        ELSE /\ nodes' = Append(nodes, [kind |-> "d", name |-> name, parent |-> 0,
                                        files |-> <<>>, inode |-> ino])
             /\ fd_pos' = r.pos
             /\ IF r.err # "none"
                THEN tree_pc' = r.err /\ UNCHANGED stack
                ELSE /\ tree_pc' = "building"
                     /\ stack' = Append(stack, [id |-> Len(nodes) + 1,
                                                children |-> r.children, i |-> 1])

\* self._rootdir = Directory.from_fd(fd_, self, self._super.root)
TreeEnterRoot ==
    /\ tree_pc = "init"
    /\ TreeCall(tree_root, "")
    /\ UNCHANGED <<fd_kind, fd_len, bs_start, bs_end, last, tree_ent, tree_root,
                   sel, offTree>>

\* One turn of the loop `for ino, name in children` of the innermost call:
\* a directory is built by a nested call, any other file is made at once
\* and put into self._files.
TreeChild ==
    /\ tree_pc = "building"
    /\ LET top == stack[Len(stack)]
           c == top.children[top.i]
       IN  /\ top.i <= Len(top.children)
           /\ IF c.kind = "d" THEN TreeCall(c, c.name)
              ELSE IF c.kind \in FileTypes
              THEN /\ nodes' = [Append(nodes, [kind |-> c.kind, name |-> c.name,
                                               parent |-> top.id, files |-> <<>>,
                                               inode |-> c])
                                EXCEPT ![top.id].files =
                                    DictSet(@, c.name, Len(nodes) + 1)]
                   /\ stack' = [stack EXCEPT ![Len(stack)].i = @ + 1]
                   /\ UNCHANGED <<tree_pc, fd_pos>>
              ELSE /\ tree_pc' = "KeyError"
                   /\ UNCHANGED <<nodes, stack, fd_pos>>
    /\ UNCHANGED <<fd_kind, fd_len, bs_start, bs_end, last, tree_ent, tree_root,
                   sel, offTree>>

\* The innermost call returns: the caller sets the new directory's parent
\* and puts it into its own _files; the outermost call returns the root.
TreeReturn ==
    /\ tree_pc = "building"
    /\ LET top == stack[Len(stack)]
           up == stack[Len(stack) - 1]
       IN  /\ top.i > Len(top.children)
           /\ IF Len(stack) = 1
              THEN /\ tree_pc' = "built"
                   /\ stack' = <<>>
                   /\ UNCHANGED nodes
              ELSE /\ nodes' = [nodes EXCEPT
                         ![top.id].parent = up.id,
                         ![up.id].files = DictSet(@, nodes[top.id].name, top.id)]
                   /\ stack' = [SubSeq(stack, 1, Len(stack) - 1)
                                EXCEPT ![Len(stack) - 1].i = @ + 1]
                   /\ UNCHANGED tree_pc
    /\ UNCHANGED <<streamVars, tree_ent, tree_root, sel, offTree>>

\* The nodes Cramfs.__iter__ yields, once the image is constructed
Iter ==
    IF tree_pc = "built"
    THEN {Riter(nodes, 1)[i] : i \in 1..Len(Riter(nodes, 1))}
    ELSE {}

\* image.select(n.path) for a node n that iterating the image yields
SelectPath(n) ==
    /\ tree_pc = "built"
    /\ sel' = [node |-> n, result |-> Select(nodes, 1, 1, PathOf(nodes, n))]
    /\ UNCHANGED <<streamVars, tree_ent, tree_root, nodes, stack, tree_pc, offTree>>

NextTree ==
    \/ TreeEnterRoot
    \/ TreeChild
    \/ TreeReturn
    \/ \E n \in Iter : SelectPath(n)

(***************************************************************************)
(* SpecCrc: calculate_crc(size) on an image                                *)
(***************************************************************************)
CrcFields == {<<0, 0, 0, 0>>, <<1, 2, 3, 4>>}
CrcChunkSizes == {1, 2, 3, 1024}
\* The bytes of an image: a superblock record with the CRC field set,
\* then the tail.
CrcImage(field, tail) ==
    SubSeq(ValidRecord, 1, CRC_OFFSET) \o field
        \o SubSeq(ValidRecord, CRC_OFFSET + CRC_SIZE + 1, SizeofSuper) \o tail

\* An image at offset bs_start of the underlying stream, which holds it
\* whole, with bytes after it, or cut short by one byte; the stream is left
\* anywhere by earlier calls.
InitCrc ==
    /\ fd_kind = "BytesIO"
    /\ bs_start \in ImageOffsets
    /\ \E field \in CrcFields, n \in 0..CrcTail, cut \in {0, 1, 0 - 2} :
          /\ cut <= n
          /\ bs_end = bs_start + SizeofSuper + n
          /\ fd_len = bs_end - cut
          /\ crc_src = SubSeq([i \in 1..bs_start |-> 9]
                                  \o CrcImage(field, [i \in 1..n |-> 200 + i])
                                  \o <<7, 7>>, 1, fd_len)
    /\ fd_pos \in {bs_start, bs_start + CRC_OFFSET + 1, bs_end, bs_end + 2}
    /\ crc_size \in CrcChunkSizes
    /\ crc = NewCrc
    /\ last = NoCall
    /\ super = NoSuper /\ py_invert = "complement" /\ pc = "idle"
    /\ outcome = NoOutcome
    /\ data_inode = NoInode /\ data_words = <<>> /\ data_zs = {}
    /\ it = NewIter
    /\ scan_src = <<>> /\ scan_size = 1 /\ scan = NewScan
    /\ tree_ent = <<>> /\ tree_root = NoEntry /\ nodes = <<>> /\ stack = <<>>
    /\ tree_pc = "idle" /\ sel = NoSelect
    /\ LifeIdle
    /\ TotalIdle
    /\ MatchIdle
    /\ ShareIdle

\* calculate_crc is called and runs up to its loop.
CrcStart ==
    /\ crc.state = "new"
    /\ LET h == CrcHead(fd_kind, crc_src, fd_pos, bs_start, bs_end, fd_len)
       IN  /\ crc' = [state |-> "loop", value |-> h.value, p0 |-> fd_pos,
                      chunks |-> 0]
           /\ fd_pos' = h.pos
    /\ UNCHANGED <<fd_kind, fd_len, bs_start, bs_end, last, crc_src, crc_size, offCrc>>

\* One turn of the loop over iter(partial(self._fd.read, size), b''); the
\* empty block ends it and crc is returned.
CrcChunk ==
    /\ crc.state = "loop"
    /\ LET n == BoundedRead(fd_pos, FALSE, crc_size, bs_end, fd_len)
           block == BytesAt(crc_src, fd_pos, n)
       IN  /\ fd_pos' = fd_pos + n
           /\ IF block = <<>>
              THEN crc' = [crc EXCEPT !.state = "done"]
              ELSE crc' = [crc EXCEPT !.value = crc32(block, @),
                                      !.chunks = @ + 1]
    /\ UNCHANGED <<fd_kind, fd_len, bs_start, bs_end, last, crc_src, crc_size, offCrc>>

NextCrc == CrcStart \/ CrcChunk

(***************************************************************************)
(* SpecLife: an image is made by from_fd, from_bytes or from_file, then    *)
(* used in a with-block and closed                                         *)
(***************************************************************************)
GoodSuper ==
    [magic |-> MAGIC, size |-> PAGE_SIZE, flags |-> FSID_VERSION_2,
     signature |-> SIGNATURE_BYTES, files |-> 2]
LifeSupers ==
    {GoodSuper, [GoodSuper EXCEPT !.magic = 0],
     [GoodSuper EXCEPT !.signature = SigHigh],
     [GoodSuper EXCEPT !.size = PAGE_SIZE - 1], [GoodSuper EXCEPT !.files = 0]}
\* Root inodes: a directory of one file, an empty directory, and a header
\* region that starts 8 bytes before the end of the image.
LifeRoots ==
    {DirEntry("", RootHeader, SizeofInode + 4), DirEntry("", 0, 0),
     DirEntry("", PAGE_SIZE - 8, SizeofInode + 4)}

\* Before the call: the caller of from_fd holds an open stream, from_bytes
\* and from_file have not made theirs yet. The stream holds the image whole
\* or ends inside the superblock.
InitLife ==
    /\ \E how \in {"from_fd", "from_bytes", "from_file"}, closefd \in BOOLEAN :
          /\ how # "from_fd" => closefd
          /\ life = [NoLife EXCEPT !.how = how, !.closefd = closefd,
                                   !.state = "new", !.open = (how = "from_fd")]
          /\ fd_kind \in (IF how = "from_bytes" THEN {"BytesIO"}
                          ELSE IF how = "from_file" THEN {"file"}
                          ELSE {"BytesIO", "file"})
    /\ super \in LifeSupers
    /\ py_invert = "complement" /\ pc = "idle" /\ outcome = NoOutcome
    /\ tree_root \in LifeRoots
    /\ tree_ent = (RootHeader :> FileEntry("-", "a"))
    /\ nodes = <<>> /\ stack = <<>> /\ tree_pc = "idle" /\ sel = NoSelect
    /\ bs_start = 0 /\ bs_end = 0
    /\ fd_pos = 0
    /\ \E offset \in ImageOffsets :
          fd_len \in {offset + super.size, offset + SizeofSuper - 4}
    /\ last = NoCall
    /\ data_inode = NoInode /\ data_words = <<>> /\ data_zs = {}
    /\ it = NewIter
    /\ scan_src = <<>> /\ scan_size = 1 /\ scan = NewScan
    /\ CrcIdle
    /\ TotalIdle
    /\ MatchIdle
    /\ ShareIdle

\* Cramfs.from_fd(fd, offset, closefd), called by the user or by from_bytes
\* or from_file on the stream they make; no path of it closes a stream.
LifeConstruct(offset) ==
    /\ life.state = "new"
    /\ LET r == FromFd(fd_kind, super, py_invert, tree_ent, tree_root, offset,
                       fd_len)
       IN  /\ life' = [life EXCEPT !.open = TRUE, !.err = r.err,
                           !.state = IF r.err = "none" THEN "image" ELSE "raised"]
           /\ fd_pos' = r.pos
           /\ bs_start' = r.start
           /\ bs_end' = r.end
           /\ nodes' = r.nodes
    /\ UNCHANGED <<fd_kind, fd_len, last, tree_ent, tree_root, stack, tree_pc,
                   sel, superVars, dataVars, scanVars, crcVars, totalVars,
                   matchVars, shareVars>>

\* image.close()
LifeClose ==
    /\ life.state = "image"
    /\ life.closes < 2
    /\ life' = [life EXCEPT !.open = CramfsClose(@), !.closes = @ + 1]
    /\ UNCHANGED <<streamVars, offLife>>

\* `with image:` is entered
LifeEnter ==
    /\ life.state = "image"
    /\ life.block = "out"
    /\ life' = [life EXCEPT !.block = "in"]
    /\ UNCHANGED <<streamVars, offLife>>

\* The with-block is left, by its end or by an exception.
LifeExit(exc) ==
    /\ life.block = "in"
    /\ life' = [life EXCEPT !.open = CramfsExit(life.closefd, @),
                            !.block = IF exc THEN "raised" ELSE "left"]
    /\ UNCHANGED <<streamVars, offLife>>

NextLife ==
    \/ \E offset \in ImageOffsets : LifeConstruct(offset)
    \/ LifeClose
    \/ LifeEnter
    \/ \E exc \in BOOLEAN : LifeExit(exc)

(***************************************************************************)
(* SpecTotal: the tree of an image is built, then totals are read          *)
(***************************************************************************)
\* Cramfs.from_fd is about to build the tree of an image laid out as
\* TreeImage says, its names taken from names, n3 of one of kinds.
TreeStart(names, kinds) ==
    /\ \E n1, n2, n3, n4, n5 \in names, k3 \in kinds :
          LET img == TreeImage(n1, n2, n3, k3, n4, n5)
          IN  tree_ent = img.ent /\ tree_root = img.root
    /\ nodes = <<>> /\ stack = <<>> /\ tree_pc = "init" /\ sel = NoSelect
    /\ fd_kind = "BytesIO"
    /\ bs_start \in ImageOffsets
    /\ bs_end = bs_start + PAGE_SIZE
    /\ fd_len = bs_end
    /\ fd_pos = bs_start + SizeofSuper
    /\ last = NoCall
    /\ super = NoSuper /\ py_invert = "complement" /\ pc = "idle"
    /\ outcome = NoOutcome
    /\ data_inode = NoInode /\ data_words = <<>> /\ data_zs = {}
    /\ it = NewIter
    /\ scan_src = <<>> /\ scan_size = 1 /\ scan = NewScan
    /\ CrcIdle
    /\ LifeIdle

TotalNames == {"a", "b", ".."}
InitTotal ==
    /\ TreeStart(TotalNames, {"dir", "empty", "file"})
    /\ TotalIdle
    /\ MatchIdle
    /\ ShareIdle

\* The Directory objects iterating the built image yields
Directories == {n \in Iter : nodes[n].kind = "d"}

\* D.total is read
Total(d) ==
    /\ tree_pc = "built"
    /\ LET r == TotalGet(nodes, totals, d)
       IN  /\ totals' = r.cache
           /\ tot' = [node |-> d, result |-> r.value,
                      cached |-> d \in DOMAIN totals]
    /\ UNCHANGED <<streamVars, offTotal>>

NextTotal ==
    \/ TreeEnterRoot
    \/ TreeChild
    \/ TreeReturn
    \/ \E d \in Directories : Total(d)

(***************************************************************************)
(* SpecMatch: the tree of an image is built, then itermatch() is consumed  *)
(***************************************************************************)
MatchNames == {"a", "b"}
Patterns == {"*", "a"}
InitMatch ==
    /\ TreeStart(MatchNames, {"dir", "empty", "file"})
    /\ TotalIdle
    /\ MatchIdle
    /\ ShareIdle

\* list(D.itermatch(pattern))
MatchAll(d, pattern) ==
    /\ tree_pc = "built"
    /\ LET r == Itermatch(nodes, 1, d, pattern)
       IN  match' = [node |-> d, pattern |-> pattern, err |-> r.err,
                     result |-> r.nodes]
    /\ UNCHANGED <<streamVars, offMatch>>

NextMatch ==
    \/ TreeEnterRoot
    \/ TreeChild
    \/ TreeReturn
    \/ \E d \in Directories, pattern \in Patterns : MatchAll(d, pattern)

(***************************************************************************)
(* SpecParse: the tree is built from images whose root inode's size is     *)
(* or is not the length of its header region                               *)
(***************************************************************************)
\* The root's header region holds two entries, the first named n1, the
\* second a file or an empty directory; it ends the image or is followed by
\* the zero bytes of two more inodes. The root inode's size is the region's
\* length plus delta.
ParseImage(header, n1, k2, delta) ==
    LET e1 == FileEntry("-", n1)
        e2 == IF k2 = "empty" THEN DirEntry("b", 0, 0) ELSE FileEntry("l", "b")
    IN  [root |-> DirEntry("", header, EntryLen(e1) + EntryLen(e2) + delta),
         ent |-> (header :> e1) @@ (header + EntryLen(e1) :> e2)]

ParseHeaders == {PAGE_SIZE - RegionLen, PAGE_SIZE - RegionLen - 2 * SizeofInode}
ParseDeltas == {0, 0 - 4, 0 - 12, 0 - 16, 12, 16}

InitParse ==
    /\ \E header \in ParseHeaders, n1 \in {"a", "b"}, k2 \in {"empty", "file"},
          delta \in ParseDeltas, empty \in BOOLEAN :
          LET img == ParseImage(header, n1, k2, delta)
          IN  /\ tree_ent = img.ent
              /\ tree_root = IF empty THEN DirEntry("", 0, img.root.size)
                             ELSE img.root
    /\ nodes = <<>> /\ stack = <<>> /\ tree_pc = "init" /\ sel = NoSelect
    /\ fd_kind = "BytesIO"
    /\ bs_start \in ImageOffsets
    /\ bs_end = bs_start + PAGE_SIZE
    /\ fd_len = bs_end
    /\ fd_pos = bs_start + SizeofSuper
    /\ last = NoCall
    /\ super = NoSuper /\ py_invert = "complement" /\ pc = "idle"
    /\ outcome = NoOutcome
    /\ data_inode = NoInode /\ data_words = <<>> /\ data_zs = {}
    /\ it = NewIter
    /\ scan_src = <<>> /\ scan_size = 1 /\ scan = NewScan
    /\ CrcIdle
    /\ LifeIdle
    /\ TotalIdle
    /\ MatchIdle
    /\ ShareIdle

NextParse == TreeEnterRoot \/ TreeChild \/ TreeReturn

(***************************************************************************)
(* SpecShare: two data-bearing nodes of a well-formed image are read        *)
(* through iter_bytes(), with select and calculate_crc called in between   *)
(***************************************************************************)
ShareKinds == {"raw_ok", "z_ok"}
ShareSizes == {(k - 1) * PAGE_SIZE + 808 : k \in 1..MaxBlocks}
ShareOffset == SizeofSuper + 2 * SizeofInode
ShareImageSize == (2 * MaxBlocks + 1) * PAGE_SIZE

\* The pointer array and blocks of one node at offset a, those of the second
\* right after them; either is the node the first iterator reads.
InitShare ==
    /\ fd_kind = "BytesIO"
    /\ bs_start \in ImageOffsets
    /\ bs_end = bs_start + ShareImageSize
    /\ fd_len = bs_end
    /\ fd_pos = bs_start + SizeofSuper
    /\ \E size1 \in ShareSizes, size2 \in ShareSizes, k1 \in ShareKinds,
          k2 \in ShareKinds, swap \in BOOLEAN :
          LET ks1 == [i \in 1..MaxBlock(size1) |-> k1]
              ks2 == [i \in 1..MaxBlock(size2) |-> k2]
              base1 == ShareOffset + SizeofBlkPtr * MaxBlock(size1)
              off2 == EndOf(ks1, size1, base1, MaxBlock(size1))
              base2 == off2 + SizeofBlkPtr * MaxBlock(size2)
              node1 == [inode |-> [size |-> size1, offset |-> ShareOffset],
                        words |-> WordsOf(ks1, size1, base1)]
              node2 == [inode |-> [size |-> size2, offset |-> off2],
                        words |-> WordsOf(ks2, size2, base2)]
              first == IF swap THEN node2 ELSE node1
              second == IF swap THEN node1 ELSE node2
          IN  /\ data_inode = first.inode
              /\ data_words = first.words
              /\ data_zs = StreamsOf(ks1, size1, base1) \cup StreamsOf(ks2, size2, base2)
              /\ other = [inode |-> second.inode, words |-> second.words,
                          it |-> NewIter, ops |-> <<>>]
    /\ it = NewIter
    /\ last = NoCall
    /\ scan_src = <<>> /\ scan_size = 1 /\ scan = NewScan
    /\ tree_ent = <<>> /\ tree_root = NoEntry /\ nodes = <<>> /\ stack = <<>>
    /\ tree_pc = "idle" /\ sel = NoSelect
    /\ CrcIdle
    /\ super = NoSuper /\ py_invert = "complement" /\ pc = "idle"
    /\ outcome = NoOutcome
    /\ LifeIdle
    /\ TotalIdle
    /\ MatchIdle

\* next() on the generator of the second node
OtherPull ==
    /\ other.it.state \in {"new", "running"}
    /\ LET r == Pull(other.it, other.inode, other.words, data_zs, fd_kind,
                     fd_pos, bs_start, bs_end, fd_len)
       IN  /\ other' = [other EXCEPT !.it = r.it]
           /\ fd_pos' = r.pos
    /\ UNCHANGED <<fd_kind, fd_len, bs_start, bs_end, last, offShare>>

\* image.select(path): the tree is walked, the stream is not used.
ShareSelect ==
    /\ Len(other.ops) < MaxOps
    /\ other' = [other EXCEPT !.ops = Append(@, "select")]
    /\ UNCHANGED <<streamVars, offShare>>

\* image.calculate_crc()
ShareCrc ==
    /\ Len(other.ops) < MaxOps
    /\ other' = [other EXCEPT !.ops = Append(@, "calculate_crc")]
    /\ fd_pos' = CrcEnd(fd_kind, fd_pos, bs_start, bs_end, fd_len)
    /\ UNCHANGED <<fd_kind, fd_len, bs_start, bs_end, last, offShare>>

NextShare == IterPull \/ OtherPull \/ ShareSelect \/ ShareCrc

SpecStream == InitStream /\ [][NextStream]_vars
SpecSuper == InitSuper /\ [][NextSuper]_vars
SpecData == InitData /\ [][NextData]_vars
SpecScan == InitScan /\ [][NextScan]_vars
SpecTree == InitTree /\ [][NextTree]_vars
SpecCrc == InitCrc /\ [][NextCrc]_vars
SpecLife == InitLife /\ [][NextLife]_vars
SpecTotal == InitTotal /\ [][NextTotal]_vars
SpecMatch == InitMatch /\ [][NextMatch]_vars
SpecParse == InitParse /\ [][NextParse]_vars
SpecShare == InitShare /\ [][NextShare]_vars
Spec == SpecStream

(***************************************************************************)
(* Claims                                                                  *)
(***************************************************************************)
\* The conditions under which the superblock is to be rejected.
SuperIsBad(sb) ==
    \/ sb.magic # MAGIC
    \/ sb.signature # SIGNATURE_BYTES
    \/ sb.flags - BitAnd(sb.flags, SUPPORTED_FLAGS) # 0
    \/ sb.size < PAGE_SIZE
    \/ (BitAnd(sb.flags, FSID_VERSION_2) # 0 /\ sb.files = 0)

\* C1: image construction fails with a CramfsError exactly when the magic is
\* wrong, the signature is wrong, a flag outside the supported mask is set,
\* size < 4096, or FSID_VERSION_2 is set with fsid.files = 0; otherwise
\* validation raises nothing and the tree is built; the failure is never of
\* another kind and no tree is built after a failed check.
C1_RejectsExactlyBadSuper ==
    pc \in {"validated", "raised", "built"} =>
        /\ SuperIsBad(super) <=> outcome.kind = "CramfsError"
        /\ ~SuperIsBad(super) <=> outcome.kind = "ok"
        /\ outcome.tree => ~SuperIsBad(super)

\* C2 as stated: read_bytes() returns exactly inode.size bytes for any values
\* of the block pointers and any mix of compressed and uncompressed blocks:
\* the chunks sum to size, no non-final chunk is longer than a page and the
\* final chunk is size - (n_blocks - 1) * 4096 bytes long.
C2_ReadReturnsSize ==
    it.state = "done" =>
        LET n == Len(it.chunks)
        IN  /\ SumSeq(it.chunks) = data_inode.size
            /\ \A i \in 1..(n - 1) : it.chunks[i] <= PAGE_SIZE
            /\ n > 0 => it.chunks[n] = data_inode.size - (n - 1) * PAGE_SIZE

\* The node's blocks are laid out as the format asks: the whole pointer
\* array and every payload lie inside the image and inside the underlying
\* stream, no pointer has DIRECT_PTR, the offsets do not decrease from the
\* end of the array on, and the payload of block i holds a page (the rest of
\* the file for the last block), raw or as a zlib stream.
DataWellFormed ==
    LET n == MaxBlock(data_inode.size)
        base == data_inode.offset + SizeofBlkPtr * n
        limit == Min(bs_end, fd_len) - bs_start
    IN  /\ Len(data_words) = n
        /\ base <= limit
        /\ \A i \in 1..n :
              LET w == data_words[i]
                  prev == IF i = 1 THEN base ELSE data_words[i - 1].off
                  L == ExpectedLen(data_inode.size, i)
              IN  /\ ~w.d
                  /\ prev <= w.off
                  /\ w.off <= limit
                  /\ w.u => w.off - prev = L
                  /\ ~w.u => Decompress(data_zs, prev, w.off - prev) = L

\* C2 (amended): for a node whose blocks are laid out as the format asks,
\* iter_bytes() never raises, chunk i is a page long (the rest of the file
\* for the last one), and read_bytes() returns exactly inode.size bytes.
C2_WellFormedReadReturnsSize ==
    DataWellFormed =>
        /\ it.state # "raised"
        /\ \A i \in 1..Len(it.chunks) :
              it.chunks[i] = ExpectedLen(data_inode.size, i)
        /\ it.state = "done" =>
              /\ Len(it.chunks) = MaxBlock(data_inode.size)
              /\ SumSeq(it.chunks) = data_inode.size

\* A file of several blocks, raw and compressed ones, was read to its end.
C2_Witness ==
    /\ DataWellFormed
    /\ it.state = "done"
    /\ Len(it.chunks) >= 2
    /\ \E i, j \in 1..Len(it.ptrs) : it.ptrs[i].u /\ ~it.ptrs[j].u

HasDirect(ptrs) == \E i \in 1..Len(ptrs) : ptrs[i].d
FirstDirect(ptrs) ==
    CHOOSE i \in 1..Len(ptrs) : ptrs[i].d /\ \A j \in 1..(i - 1) : ~ptrs[j].d

\* C3: when a decoded block pointer has DIRECT_PTR set, iter_bytes() yields
\* no chunk for that block or a later one, the raise on reaching that pointer
\* is a CramfsError, and read_bytes() never returns data.
C3_DirectPointerRaises ==
    HasDirect(it.ptrs) =>
        LET k == FirstDirect(it.ptrs)
        IN  /\ Len(it.chunks) < k
            /\ it.state # "done"
            /\ (it.state = "raised" /\ Len(it.chunks) = k - 1) =>
                  it.err = "CramfsError"

\* The second pointer is a direct one: one chunk was yielded, then the raise.
C3_Witness ==
    /\ HasDirect(it.ptrs)
    /\ FirstDirect(it.ptrs) = 2
    /\ it.state = "raised"
    /\ it.err = "CramfsError"
    /\ Len(it.chunks) = 1

\* C4: for every node n yielded by iterating a constructed image,
\* image.select(n.path) returns n itself, whatever names the directory
\* entries carry (empty names, "." and ".." included).
C4_SelectPathIsNode == sel.node # 0 => sel.result = sel.node

\* C5: every read(n) returns at most end - p bytes, p the underlying position
\* before the call, and no byte from outside [start, end).
C5_ReadStaysInWindow ==
    last.op = "read" =>
        /\ last.ret <= bs_end - last.p0
        /\ last.ret > 0 => (last.p0 >= bs_start /\ last.p0 + last.ret <= bs_end)

\* C6: after any sequence of read and seek calls tell() is in [0, e - s].
C6_TellInWindow ==
    last.op = "tell" => (last.ret >= 0 /\ last.ret <= bs_end - bs_start)

\* C7: seek(o, SEEK_SET) leaves the underlying stream at
\* min(end, max(start, start + o)) and returns that position minus start.
C7_SeekSetClamps ==
    (last.op = "seek" /\ last.whence = "SET") =>
        /\ ~last.raised
        /\ fd_pos = Min(bs_end, Max(bs_start, bs_start + last.arg))
        /\ last.ret = fd_pos - bs_start

\* C8: seek(o, SEEK_CUR) called at a position p in [start, end] leaves the
\* underlying stream at min(end, max(start, p + o)).
C8_SeekCurClamps ==
    (last.op = "seek" /\ last.whence = "CUR"
        /\ last.p0 >= bs_start /\ last.p0 <= bs_end) =>
        fd_pos = Min(bs_end, Max(bs_start, last.p0 + last.arg))

\* Offset o of the source starts a complete record with the magic bytes and
\* the raw signature.
ValidAt(src, o) ==
    /\ o + SizeofSuper <= Len(src)
    /\ SubSeq(src, o + 1, o + 4) = MAGIC_BYTES
    /\ SubSeq(src, o + SignatureOffset + 1, o + SignatureOffset + 16)
           = SIGNATURE_BYTES
ValidOffsets(src) == {o \in 0..Len(src) : ValidAt(src, o)}

RECURSIVE SortedSeq(_)
\* The elements of a set of numbers in ascending order.
SortedSeq(S) ==
    IF S = {} THEN <<>>
    ELSE LET m == CHOOSE i \in S : \A j \in S : i <= j
         IN  <<m>> \o SortedSeq(S \ {m})

\* C9: find_superblocks returns exactly one entry for each offset at which
\* the magic bytes start a record with the raw signature, no other entry,
\* in ascending order, also with several occurrences in one chunk, and a
\* spurious occurrence does not make the scan fail.
C9_FindsEverySuperblock ==
    /\ scan.state # "raised"
    /\ scan.state = "done" => scan.result = SortedSeq(ValidOffsets(scan_src))

\* The magic bytes at offset o do not all lie in the same chunk.
Straddles(o, size) == o \div size # (o + 3) \div size

MagicOffsets(src) ==
    {o \in 0..(Len(src) - 4) : SubSeq(src, o + 1, o + 4) = MAGIC_BYTES}

\* C10: for every chunk size >= 1 and every source with a single valid
\* superblock whose magic bytes lie across a chunk boundary,
\* find_superblocks returns exactly one entry, with that superblock's offset.
\* It is stated for the sources that hold the magic bytes nowhere else.
C10_FindsStraddlingSuperblock ==
    (/\ Cardinality(ValidOffsets(scan_src)) = 1
     /\ MagicOffsets(scan_src) = ValidOffsets(scan_src)
     /\ \A o \in ValidOffsets(scan_src) : Straddles(o, scan_size)) =>
        /\ scan.state # "raised"
        /\ scan.state = "done" => scan.result = SortedSeq(ValidOffsets(scan_src))

\* The bytes C11 says are hashed: image[0:32], four zero bytes,
\* image[36:super.size], the image being what the stream holds from start.
CrcExpected ==
    LET image == SubSeq(crc_src, bs_start + 1, Min(bs_end, fd_len))
    IN  SubSeq(image, 1, CRC_OFFSET) \o <<0, 0, 0, 0>>
            \o SubSeq(image, CRC_OFFSET + CRC_SIZE + 1, Len(image))

\* C11: calculate_crc(chunk) returns the CRC-32 of image[0:32] ++ four zero
\* bytes ++ image[36:super.size], for every chunk size >= 1, every value of
\* the CRC field and every stream position before the call.
C11_CrcOfZeroedImage ==
    crc.state = "done" => crc.value = crc32(CrcExpected, CrcZero)

\* calculate_crc returned after several chunks on an image with a nonzero
\* CRC field and bytes after the superblock, called with the stream away
\* from the start of the image.
C11_Witness ==
    /\ crc.state = "done"
    /\ crc.chunks >= 2
    /\ crc.p0 # bs_start
    /\ BytesAt(crc_src, bs_start + CRC_OFFSET, CRC_SIZE) # <<0, 0, 0, 0>>
    /\ bs_end > bs_start + SizeofSuper
    /\ crc.value = crc32(CrcExpected, CrcZero)

C13_OpenedStreamReleased ==
    (life.how \in {"from_bytes", "from_file"} /\ life.state = "raised")
        => ~life.open

\* C14: for every directory D of a constructed image, D.total is the
\* number of nodes D.riter() yields minus one; every later access returns
\* the same value, and reading a total leaves every cached total what it
\* has to be.
C14_TotalCountsSubtree ==
    /\ tot.node # 0 => tot.result = Len(Riter(nodes, tot.node)) - 1
    /\ \A d \in DOMAIN totals : totals[d] = Len(Riter(nodes, d)) - 1

\* A total was read a second time on a directory that holds a directory
\* with a file in it.
C14_Witness ==
    /\ tot.node # 0
    /\ tot.cached
    /\ \E c \in 1..Len(nodes) :
          /\ nodes[c].kind = "d" /\ nodes[c].parent = tot.node
          /\ nodes[c].files # <<>>
    /\ tot.result = Len(Riter(nodes, tot.node)) - 1
    /\ tot.result >= 3

\* The nodes D.iterdir() yields
Iterdir(d) == [i \in 1..Len(nodes[d].files) |-> nodes[d].files[i][2]]

\* C15: for a non-root directory D, itermatch("*") yields exactly the
\* direct children of D, each once, in insertion order.
C15_StarYieldsChildren ==
    (match.node # 0 /\ match.pattern = "*" /\ nodes[match.node].parent # 0)
        => match.err = "none" /\ match.result = Iterdir(match.node)

\* The position the i-th child header of a directory at offset off starts at
ChildStart(off, children, i) ==
    off + SumSeq([j \in 1..(i - 1) |-> SizeofInode + children[j].namelen])

\* The header region the root inode declares lies inside the image
RootRegionInImage == tree_root.offset + tree_root.size <= PAGE_SIZE

\* C16: Directory.from_fd parses child headers only while the stream position
\* is below offset + size and stops as soon as it is at or past it, so that
\* on an image holding the declared region no header read fails, every
\* recorded child starts inside [offset, offset + size), and a directory
\* with offset 0 gets no children and no read.
C16_ParseStopsAtEnd ==
    (tree_pc # "init" /\ RootRegionInImage) =>
        /\ tree_pc # "ValueError"
        /\ \A f \in 1..Len(stack) : \A i \in 1..Len(stack[f].children) :
               LET ino == nodes[stack[f].id].inode
                   at == ChildStart(ino.offset, stack[f].children, i)
               IN  ino.offset <= at /\ at < ino.offset + ino.size
        /\ tree_root.offset = 0 =>
               (Len(nodes) = 1 /\ nodes[1].files = <<>>
                /\ fd_pos = bs_start + SizeofSuper)

\* The chunks generator itr has yielded for the node of inode ino are those
\* of its blocks, in order, and it has not raised.
ChunksAreBlocks(itr, ino) ==
    /\ itr.err = "none"
    /\ \A i \in 1..Len(itr.chunks) : itr.chunks[i] = ExpectedLen(ino.size, i)

\* C17: what iter_bytes() yields does not depend on the other calls made on
\* the image between two pulls: with a second iterator consumed in between,
\* or select or calculate_crc called, each iterator yields the chunks of
\* its own blocks, as it does when consumed alone.
C17_ChunksIndependentOfOtherCalls ==
    ChunksAreBlocks(it, data_inode) /\ ChunksAreBlocks(other.it, other.inode)

\* What C17 says of an iterator that is consumed alone
C17_AloneChunksAreBlocks ==
    (other.it = NewIter /\ other.ops = <<>>) => ChunksAreBlocks(it, data_inode)

\* C18: the tree build ends with a finite tree on every validated image: no
\* call of Directory.from_fd is made for a header region that a call on
\* the current chain from the root is already building, also when a child
\* directory's offset is that of its own region or of an ancestor's, so
\* that the nesting never exhausts the call stack.
C18_NoRegionBuiltTwiceOnChain ==
    /\ tree_pc # "RecursionError"
    /\ \A i \in 1..Len(stack) : \A j \in 1..Len(stack) :
           (i < j /\ nodes[stack[i].id].inode.offset # 0)
               => nodes[stack[i].id].inode.offset # nodes[stack[j].id].inode.offset

====
